---- MODULE Spec2Model ----
(***************************************************************************)
(* State-machine model of pymemoq's server facade (memoq/server.py):       *)
(* class MemoQServer with its lazily built endpoint proxies and its        *)
(* project views, and class LightResources, the read-only mapping over the *)
(* light-resource endpoint.  The SOAP transport (zeep) is the environment: *)
(* a remote operation call is a step that records the call and draws the   *)
(* response from a small set of possible responses.                        *)
(*                                                                         *)
(* Python values are tagged records: [type |-> "NoneType"], [type |->      *)
(* "list", items |-> <<...>>], [type |-> "zeep", ...] for a record of the  *)
(* transport client, [type |-> "dict", ...] for a plain mapping.           *)
(***************************************************************************)
EXTENDS Integers, Sequences, FiniteSets, TLC

VARIABLES
    base_url,          \* MemoQServer.base_url
    _all_projects,     \* MemoQServer._all_projects: None or the cached ListProjects result
    _api_endpoints,    \* MemoQServer._api_endpoints: dict, service key -> proxy
    _light_resources,  \* MemoQServer._light_resources: None or the LightResources object
    now,               \* the wall clock read by datetime.now(timezone.utc)
    iterator,          \* the generator made by LightResources.__iter__: its position
    lastOp,            \* observation: the operation the last step performed
    ret,               \* observation: what that operation handed back (value or exception)
    retAt,             \* observation: the clock reading when that operation ran
    netLog,            \* observation: the remote operation calls that operation issued
    built,             \* observation: the service keys whose proxy that operation constructed
    attempts,          \* observation: the proxy constructions that operation attempted
    constructed,       \* history: service key -> number of proxies constructed for it
    everCached,        \* history: service key -> the proxies _api_endpoints ever held for it
    lpCalls,           \* history: number of remote ListProjects calls the server answered
    firstProjects,     \* history: the value the first ListProjects call returned
    iterYield,         \* history: the pairs the running generator has yielded
    iterCalls,         \* history: the ListResources calls the running generator has issued
    threads,           \* thread -> where it is inside a private accessor, and its locals
    lastStored,        \* history: service key -> the proxy the last store wrote for it
    failures           \* history: failure point -> number of errors raised there

vars == <<base_url, _all_projects, _api_endpoints, _light_resources, now, iterator,
          lastOp, ret, retAt, netLog, built, attempts, constructed, everCached,
          lpCalls, firstProjects, iterYield, iterCalls, threads, lastStored, failures>>

facadeVars == <<base_url, _all_projects, _api_endpoints, _light_resources>>
iterVars == <<iterator, iterYield, iterCalls>>
threadVars == <<threads, lastStored>>

----------------------------------------------------------------------------
(* Bounds of the model. *)

\* The clock runs over 0..MaxTime; closing times are drawn from the same range.
MaxTime == 2
\* A ListProjects response holds at most MaxProjects projects.
MaxProjects == 1
\* A history counter stops the model once it has counted MaxCalls.
MaxCalls == 2
\* The number of threads that share one facade.
NumThreads == 2
MaxFailures == 1

----------------------------------------------------------------------------
(* Python values. *)

PyNone == [type |-> "NoneType"]
PyList(s) == [type |-> "list", items |-> s]
PyStr(s) == [type |-> "str", value |-> s]
PyInt(n) == [type |-> "int", value |-> n]
EmptyDict == [k \in {} |-> PyNone]
Op(name, args) == [name |-> name, args |-> args]
Returned(v) == [kind |-> "value", value |-> v]
Raised(e) == [kind |-> "exception", exc |-> e]

BaseUrls == {"http://localhost:8080", "http://memoq.example:8080"}

\* The keys of MemoQServer._api_endpoints, one per private accessor.
ServiceKeys == {"_light_resource_service", "_live_docs_service", "_security_service",
                "_server_project_service", "_tb_service", "_tm_service"}

\* MemoQWebServiceBase.__init__ for a subclass cls: a new object, bound to the
\* WSDL at service_url.  Two proxies are the same object iff they are of the
\* same class and come from the same construction (serial).
WebServiceInit(cls, path, url, serial) ==
    [cls |-> cls, base_url |-> url, service_url |-> <<url, path>>, serial |-> serial]

MemoQLightResourceService(url, serial) ==
    WebServiceInit("MemoQLightResourceService", "/memoqservices/resource?wsdl", url, serial)
MemoQLiveDocsService(url, serial) ==
    WebServiceInit("MemoQLiveDocsService", "/memoqservices/livedocs?wsdl", url, serial)
MemoQSecurityService(url, serial) ==
    WebServiceInit("MemoQSecurityService", "/memoqservices/security?wsdl", url, serial)
MemoQServerProjectService(url, serial) ==
    WebServiceInit("MemoQServerProjectService", "/memoqservices/serverproject?wsdl", url, serial)
MemoQTBService(url, serial) ==
    WebServiceInit("MemoQTBService", "/memoqservices/tb?wsdl", url, serial)
MemoQTMService(url, serial) ==
    WebServiceInit("MemoQTMService", "/memoqservices/tm?wsdl", url, serial)

\* The class each private accessor instantiates.
NewProxy(key, url, serial) ==
    CASE key = "_light_resource_service" -> MemoQLightResourceService(url, serial)
      [] key = "_live_docs_service" -> MemoQLiveDocsService(url, serial)
      [] key = "_security_service" -> MemoQSecurityService(url, serial)
      [] key = "_server_project_service" -> MemoQServerProjectService(url, serial)
      [] key = "_tb_service" -> MemoQTBService(url, serial)
      [] key = "_tm_service" -> MemoQTMService(url, serial)

----------------------------------------------------------------------------
(* The private accessors: try the cache, on KeyError construct and store. *)

\* A variant that constructs a proxy on every access and overwrites the entry.
cached_endpoint_rebuilds(key) ==
    LET p == NewProxy(key, base_url, constructed[key] + 1)
    IN  [endpoints |-> [k \in DOMAIN _api_endpoints \cup {key} |->
                            IF k = key THEN p ELSE _api_endpoints[k]],
         proxy |-> p, built |-> {key}]

\* The body shared by the six private accessors: the cache after the access,
\* the proxy handed back, and the keys constructed by the access.
cached_endpoint(key) ==
    IF key \in DOMAIN _api_endpoints
    THEN [endpoints |-> _api_endpoints, proxy |-> _api_endpoints[key], built |-> {}]
    ELSE LET p == NewProxy(key, base_url, constructed[key] + 1)
         IN  [endpoints |-> [k \in DOMAIN _api_endpoints \cup {key} |->
                                 IF k = key THEN p ELSE _api_endpoints[k]],
              proxy |-> p, built |-> {key}]

_light_resource_service == cached_endpoint("_light_resource_service")
_live_docs_service == cached_endpoint("_live_docs_service")
_security_service == cached_endpoint("_security_service")
_server_project_service == cached_endpoint("_server_project_service")
_tb_service == cached_endpoint("_tb_service")
_tm_service == cached_endpoint("_tm_service")

PrivateAccessor(key) ==
    CASE key = "_light_resource_service" -> _light_resource_service
      [] key = "_live_docs_service" -> _live_docs_service
      [] key = "_security_service" -> _security_service
      [] key = "_server_project_service" -> _server_project_service
      [] key = "_tb_service" -> _tb_service
      [] key = "_tm_service" -> _tm_service

\* The history of cache entries, given the cache after a step.
Held(endpoints) ==
    [k \in ServiceKeys |->
        everCached[k] \cup (IF k \in DOMAIN endpoints THEN {endpoints[k]} ELSE {})]

\* The history of constructions after an access that constructed `keys`.
Count(keys) == [k \in ServiceKeys |-> IF k \in keys THEN constructed[k] + 1 ELSE constructed[k]]

----------------------------------------------------------------------------
(* The remote server, reached through MemoQWebServiceBase.__getattr__. *)

\* datetime values: wall-clock reading and tzinfo (None for a naive datetime).
Tz(offset) == [type |-> "timezone", offset |-> offset]
utc == Tz(0)
DateTime(wall, tzinfo) == [type |-> "datetime", wall |-> wall, tzinfo |-> tzinfo]
TzInfos == {PyNone, Tz(1)}
TimesClosed == {DateTime(w, z) : w \in 0..MaxTime, z \in TzInfos}

\* datetime.replace(tzinfo=tz): the same wall-clock fields under another tzinfo.
replace_tzinfo(dt, tz) == [dt EXCEPT !.tzinfo = tz]
\* datetime.now(timezone.utc)
datetime_now == DateTime(now, utc)
\* Aware datetimes are ordered by the instant they denote.
Instant(dt) == dt.wall - dt.tzinfo.offset

\* A record of the transport client (a zeep CompoundValue).
ZeepObject(cls, fields) == [type |-> "zeep", cls |-> cls, fields |-> fields]
PyDict(fields) == [type |-> "dict", fields |-> fields]

\* A project record; Name tells the records of one response apart.
Project(i, tc) == ZeepObject("ServerProjectInfo", [Name |-> PyInt(i), TimeClosed |-> tc])

\* What ListProjects may answer: nothing at all (None), or a list of projects.
ProjectLists ==
    UNION {{[i \in 1..n |-> Project(i, tcs[i])] : tcs \in [1..n -> TimesClosed]} :
              n \in 0..MaxProjects}
ListProjectsResponses == {PyNone} \cup {PyList(s) : s \in ProjectLists}
\* A few of them, for the runs that are not about the projects' closing times.
SampleProjectsResponses ==
    {PyNone, PyList(<<>>), PyList(<<Project(1, DateTime(0, PyNone))>>),
     PyList(<<Project(1, DateTime(MaxTime, Tz(1)))>>)}

\* What the other operations may answer: a string for GetApiVersion, nothing
\* or a list of records for the list operations.
Responses(op, args) ==
    IF op = "GetApiVersion" THEN {PyStr("9.2.5")}
    ELSE {PyNone, PyList(<<ZeepObject(op, [Name |-> PyInt(1), Args |-> PyList(args)])>>)}

\* One remote operation call: the proxy it went through, the operation, its
\* arguments and the response the server gave.
RemoteCall(proxy, op, args, response) ==
    [service |-> proxy, op |-> op, args |-> args, response |-> response]

\* util.response_object_to_dict: zeep.helpers.serialize_object(o, target_cls=dict),
\* which turns records into dicts, recursing through lists and record fields
\* and leaving every other value as it is.
RECURSIVE response_object_to_dict(_)
response_object_to_dict(o) ==
    IF o.type = "list"
    THEN PyList([i \in 1..Len(o.items) |-> response_object_to_dict(o.items[i])])
    ELSE IF o.type = "zeep"
    THEN PyDict([f \in DOMAIN o.fields |-> response_object_to_dict(o.fields[f])])
    ELSE o

----------------------------------------------------------------------------
(* class MemoQServer *)

\* One attempt to construct the proxy of a service key, and whether the
\* constructor returned (ok) or raised.
Attempt(key, ok) == [key |-> key, ok |-> ok]

\* The attempts of an access that constructed `keys` (at most one key).
Succeeded(keys) == IF keys = {} THEN <<>> ELSE <<Attempt(CHOOSE k \in keys : TRUE, TRUE)>>

\* What a step leaves behind for the observer: the operation, its outcome, the
\* remote calls it issued and the proxies it constructed.
Observe(op, outcome, calls, keys) ==
    /\ lastOp' = Op(op, <<>>)
    /\ ret' = outcome
    /\ retAt' = now
    /\ netLog' = calls
    /\ built' = keys
    /\ attempts' = Succeeded(keys)
    /\ \A k \in keys : constructed[k] < MaxCalls
    /\ constructed' = Count(keys)
    /\ everCached' = Held(_api_endpoints')
    /\ lastStored' = [k \in ServiceKeys |->
                          IF k \in keys THEN _api_endpoints'[k] ELSE lastStored[k]]
    /\ UNCHANGED <<threads, failures>>

\* The same for a method call on the mapping or its generator, which goes
\* through no private accessor of the facade.
ObserveCall(op, args, outcome, calls) ==
    /\ lastOp' = Op(op, args)
    /\ ret' = outcome
    /\ retAt' = now
    /\ netLog' = calls
    /\ built' = {}
    /\ attempts' = <<>>
    /\ UNCHANGED <<constructed, everCached, threadVars, failures>>

\* A variant of the constructor that builds the project-management proxy at once.
MemoQServer__init__eager(url) ==
    /\ base_url = url
    /\ _all_projects = PyNone
    /\ _api_endpoints = [k \in {"_server_project_service"} |-> MemoQServerProjectService(url, 1)]
    /\ _light_resources = PyNone
    /\ lastOp = Op("__init__", <<url>>)
    /\ ret = Returned(PyNone)
    /\ netLog = <<>>
    /\ built = {"_server_project_service"}
    /\ attempts = <<Attempt("_server_project_service", TRUE)>>
    /\ constructed = [k \in ServiceKeys |-> IF k = "_server_project_service" THEN 1 ELSE 0]
    /\ everCached = [k \in ServiceKeys |-> IF k = "_server_project_service"
                                            THEN {MemoQServerProjectService(url, 1)} ELSE {}]

\* MemoQServer.__init__(base_url): the state of a facade just constructed, and
\* what the constructor did to get there (no call, no proxy).
MemoQServer__init__(url) ==
    /\ base_url = url
    /\ _all_projects = PyNone
    /\ _api_endpoints = EmptyDict
    /\ _light_resources = PyNone
    /\ lastOp = Op("__init__", <<url>>)
    /\ ret = Returned(PyNone)
    /\ netLog = <<>>
    /\ built = {}
    /\ attempts = <<>>
    /\ constructed = [k \in ServiceKeys |-> 0]
    /\ everCached = [k \in ServiceKeys |-> {}]

\* Reading one of the private accessors from outside.
private_accessor(key) ==
    LET svc == PrivateAccessor(key)
    IN  /\ _api_endpoints' = svc.endpoints
        /\ Observe(key, Returned(svc.proxy), <<>>, svc.built)
        /\ UNCHANGED <<base_url, _all_projects, _light_resources, now, lpCalls,
                       firstProjects, iterVars>>

\* A variant that keeps the last answer with the proxy: once the proxy exists
\* and the accessor was the last one read, it hands that answer back again.
remote_accessor_memoized(name, svc, op) ==
    IF svc.built = {} /\ lastOp.name = name
    THEN /\ _api_endpoints' = svc.endpoints
         /\ Observe(name, ret, <<>>, {})
         /\ UNCHANGED <<base_url, _all_projects, _light_resources, now, lpCalls,
                        firstProjects, iterVars>>
    ELSE \E response \in Responses(op, <<>>) :
            /\ _api_endpoints' = svc.endpoints
            /\ Observe(name, Returned(response),
                       <<RemoteCall(svc.proxy, op, <<>>, response)>>, svc.built)
            /\ UNCHANGED <<base_url, _all_projects, _light_resources, now, lpCalls,
                           firstProjects, iterVars>>

\* An accessor that asks the remote server on every access: fetch the proxy
\* through its private accessor, call the operation, hand back the response.
remote_accessor(name, svc, op) ==
    \E response \in Responses(op, <<>>) :
        /\ _api_endpoints' = svc.endpoints
        /\ Observe(name, Returned(response),
                   <<RemoteCall(svc.proxy, op, <<>>, response)>>, svc.built)
        /\ UNCHANGED <<base_url, _all_projects, _light_resources, now, lpCalls,
                       firstProjects, iterVars>>

api_version == remote_accessor("api_version", _server_project_service, "GetApiVersion")
corpora == remote_accessor("corpora", _live_docs_service, "ListCorpora")
groups == remote_accessor("groups", _security_service, "ListGroups")
tbs == remote_accessor("tbs", _tb_service, "ListTBs")
tms == remote_accessor("tms", _tm_service, "ListTMs")
\* A variant of users that passes the response through response_object_to_dict.
users_normalized ==
    \E response \in Responses("ListUsers", <<>>) :
        LET svc == _security_service
        IN  /\ _api_endpoints' = svc.endpoints
            /\ Observe("users", Returned(response_object_to_dict(response)),
                       <<RemoteCall(svc.proxy, "ListUsers", <<>>, response)>>, svc.built)
            /\ UNCHANGED <<base_url, _all_projects, _light_resources, now, lpCalls,
                           firstProjects, iterVars>>

users == remote_accessor("users", _security_service, "ListUsers")

\* The filter all_projects passes: {'TimeClosed': datetime(1900, 1, 1)}.
AllProjectsFilter == <<"TimeClosed>=1900-01-01">>

\* The body of all_projects when the remote server would answer `response`:
\* the value handed back, the cache afterwards, and the calls issued.
all_projects_get(response) ==
    IF _all_projects = PyNone
    THEN LET svc == _server_project_service
         IN  [value |-> response, cache |-> response, endpoints |-> svc.endpoints,
              built |-> svc.built,
              calls |-> <<RemoteCall(svc.proxy, "ListProjects", AllProjectsFilter, response)>>]
    ELSE [value |-> _all_projects, cache |-> _all_projects, endpoints |-> _api_endpoints,
          built |-> {}, calls |-> <<>>]

\* The state change of a step that evaluated all_projects with outcome g.
AllProjectsEffect(g) ==
    /\ lpCalls + Len(g.calls) <= MaxCalls
    /\ _all_projects' = g.cache
    /\ _api_endpoints' = g.endpoints
    /\ lpCalls' = lpCalls + Len(g.calls)
    /\ firstProjects' = IF lpCalls = 0 /\ Len(g.calls) > 0 THEN g.value ELSE firstProjects
    /\ UNCHANGED <<base_url, _light_resources, now, iterVars>>

\* all_projects, when the remote server would answer `response`.
all_projects(response) ==
    LET g == all_projects_get(response)
    IN  /\ AllProjectsEffect(g)
        /\ Observe("all_projects", Returned(g.value), g.calls, g.built)

\* The views read the clock once per project while they filter; one access is
\* one step here, so all its readings are the same instant `now`.
\* proj.TimeClosed.replace(tzinfo=timezone.utc) > datetime.now(timezone.utc)
IsActive(proj) ==
    Instant(replace_tzinfo(proj.fields.TimeClosed, utc)) > Instant(datetime_now)
\* proj.TimeClosed.replace(tzinfo=timezone.utc) < datetime.now(timezone.utc)
IsClosed(proj) ==
    Instant(replace_tzinfo(proj.fields.TimeClosed, utc)) < Instant(datetime_now)

\* [proj for proj in self.all_projects if ...]; iterating None raises TypeError.
active_projects(response) ==
    LET g == all_projects_get(response)
    IN  /\ AllProjectsEffect(g)
        /\ Observe("active_projects",
                   IF g.value.type = "list"
                   THEN Returned(PyList(SelectSeq(g.value.items, IsActive)))
                   ELSE Raised("TypeError"),
                   g.calls, g.built)

closed_projects(response) ==
    LET g == all_projects_get(response)
    IN  /\ AllProjectsEffect(g)
        /\ Observe("closed_projects",
                   IF g.value.type = "list"
                   THEN Returned(PyList(SelectSeq(g.value.items, IsClosed)))
                   ELSE Raised("TypeError"),
                   g.calls, g.built)

----------------------------------------------------------------------------
(* class LightResources *)

\* LightResources._resource_types
_resource_types ==
    <<"AutoCorrect", "AutoTrans",
      "FilterConfigs", "FontSubstitution",
      "IgnoreLists",
      "KeyboardShortcuts", "KeyboardShortcuts2",
      "LiveDocsSettings", "LQA",
      "MTSettings",
      "NonTrans",
      "PathRules",
      "ProjectTemplate",
      "QASettings",
      "SegRules",
      "Stopwords",
      "TMSettings",
      "WebSearchSettings">>

Range(s) == {s[i] : i \in 1..Len(s)}

\* Keys a caller may try that are not resource types.
UnrecognizedKeys == {"Bogus", "projecttemplate"}
AllKeys == Range(_resource_types) \cup UnrecognizedKeys
SampleKeys == {"ProjectTemplate", "Bogus"}

\* LightResources.__init__(light_resource_service)
LightResources__init__(service) ==
    [type |-> "LightResources", _light_resource_service |-> service]

\* ', '.join(parts), as the sequence of pieces the joined string is made of.
RECURSIVE Join(_, _)
Join(parts, sep) ==
    IF Len(parts) = 0 THEN <<>>
    ELSE IF Len(parts) = 1 THEN <<parts[1]>>
    ELSE <<parts[1], sep>> \o Join(Tail(parts), sep)

\* The message of the KeyError raised for an unrecognized key.
KeyErrorMessage ==
    <<"Unrecognized light resource type.  Valid resource types are: ">>
        \o Join(_resource_types, ", ")

\* A variant of __getitem__ that forwards every key to the server.
getitem_unvalidated(self, item, response) ==
    [outcome |-> Returned(response),
     calls |-> <<RemoteCall(self._light_resource_service, "ListResources",
                            <<item>>, response)>>]

\* LightResources.__getitem__(item) when the remote server would answer
\* `response`: the outcome and the calls issued.
getitem(self, item, response) ==
    IF item \in Range(_resource_types)
    THEN [outcome |-> Returned(response),
          calls |-> <<RemoteCall(self._light_resource_service, "ListResources",
                                 <<item>>, response)>>]
    ELSE [outcome |-> [kind |-> "exception", exc |-> "KeyError", message |-> KeyErrorMessage],
          calls |-> <<>>]

\* MemoQServer.light_resources: build the mapping on first access, keep it.
light_resources ==
    IF _light_resources = PyNone
    THEN LET svc == _light_resource_service
             lr == LightResources__init__(svc.proxy)
         IN  /\ _light_resources' = lr
             /\ _api_endpoints' = svc.endpoints
             /\ Observe("light_resources", Returned(lr), <<>>, svc.built)
             /\ UNCHANGED <<base_url, _all_projects, now, lpCalls, firstProjects, iterVars>>
    ELSE /\ UNCHANGED <<facadeVars, now, lpCalls, firstProjects, iterVars>>
         /\ Observe("light_resources", Returned(_light_resources), <<>>, {})

\* A lookup mapping[item] on the mapping the facade handed out.
LightResources__getitem__(item) ==
    /\ _light_resources # PyNone
    /\ \E response \in Responses("ListResources", <<PyStr(item)>>) :
           LET g == getitem(_light_resources, item, response)
           IN  ObserveCall("__getitem__", <<item>>, g.outcome, g.calls)
    /\ UNCHANGED <<facadeVars, now, lpCalls, firstProjects, iterVars>>

\* len(mapping)
LightResources__len__ ==
    /\ _light_resources # PyNone
    /\ ObserveCall("__len__", <<>>, Returned(PyInt(Len(_resource_types))), <<>>)
    /\ UNCHANGED <<facadeVars, now, lpCalls, firstProjects, iterVars>>

\* The generator LightResources.__iter__ returns: nothing runs until next().
Generator(state, pos) == [type |-> "generator", state |-> state, pos |-> pos]
NoGenerator == Generator("none", 0)

\* iter(mapping)
LightResources__iter__ ==
    /\ _light_resources # PyNone
    /\ iterator' = Generator("suspended", 0)
    /\ iterYield' = <<>>
    /\ iterCalls' = 0
    /\ ObserveCall("__iter__", <<>>, Returned(Generator("suspended", 0)), <<>>)
    /\ UNCHANGED <<facadeVars, now, lpCalls, firstProjects>>

\* A variant of the loop body that yields the bare key, as Mapping.__iter__ would.
generator_step_keys(item, response) ==
    [outcome |-> Returned(PyStr(item)), calls |-> <<>>]

\* One round of `for item in self._resource_types: yield item, self[item]`.
generator_step(item, response) ==
    LET g == getitem(_light_resources, item, response)
    IN  [outcome |-> IF g.outcome.kind = "value"
                     THEN Returned([type |-> "tuple",
                                    items |-> <<PyStr(item), g.outcome.value>>])
                     ELSE g.outcome,
         calls |-> g.calls]

\* next(generator): run the loop to its next yield, or off its end.
generator__next__ ==
    /\ iterator.state \in {"suspended", "exhausted"}
    /\ IF iterator.state = "suspended" /\ iterator.pos < Len(_resource_types)
       THEN LET item == _resource_types[iterator.pos + 1]
            IN  \E response \in Responses("ListResources", <<PyStr(item)>>) :
                    LET g == generator_step(item, response)
                    IN  /\ iterator' = IF g.outcome.kind = "value"
                                       THEN Generator("suspended", iterator.pos + 1)
                                       ELSE Generator("exhausted", iterator.pos)
                        /\ iterYield' = IF g.outcome.kind = "value"
                                        THEN Append(iterYield, item) ELSE iterYield
                        /\ iterCalls' = iterCalls + Len(g.calls)
                        /\ ObserveCall("__next__", <<>>, g.outcome, g.calls)
       ELSE /\ iterator' = Generator("exhausted", iterator.pos)
            /\ ObserveCall("__next__", <<>>, Raised("StopIteration"), <<>>)
            /\ UNCHANGED <<iterYield, iterCalls>>
    /\ UNCHANGED <<facadeVars, now, lpCalls, firstProjects>>

----------------------------------------------------------------------------
(* Attribute lookup on a MemoQServer *)

\* The names class MemoQServer and its constructor define.
MemoQServerAttributes ==
    {"base_url", "_all_projects", "_api_endpoints", "_light_resources"}
        \cup ServiceKeys
        \cup {"active_projects", "all_projects", "api_version", "closed_projects",
              "corpora", "groups", "light_resources", "tbs", "tms", "users"}

\* Names a caller may try.
TriedNames == {"projects"}

\* A variant of the class that has a `projects` property asking the server on
\* every access.
getattr_projects_defined(name) ==
    \E response \in ListProjectsResponses :
        LET svc == _server_project_service
        IN  /\ _api_endpoints' = svc.endpoints
            /\ Observe(name, Returned(response),
                       <<RemoteCall(svc.proxy, "ListProjects", <<>>, response)>>, svc.built)
            /\ UNCHANGED <<base_url, _all_projects, _light_resources, now, lpCalls,
                           firstProjects, iterVars>>

\* Reading a name the class does not define: the class has no __getattr__, so
\* the default lookup raises AttributeError.
getattr_undefined(name) ==
    /\ name \notin MemoQServerAttributes
    /\ UNCHANGED <<facadeVars, now, lpCalls, firstProjects, iterVars>>
    /\ Observe(name, Raised("AttributeError"), <<>>, {})

----------------------------------------------------------------------------
(* Specifications *)
(* In all three the remote server answers every call and every WSDL fetch:  *)
(* a step is one access by a single caller, run to its return or to the     *)
(* exception the library itself raises (KeyError, TypeError, AttributeError,*)
(* StopIteration).                                                          *)

\* Time passes between two operations.
Tick ==
    /\ now < MaxTime
    /\ now' = now + 1
    /\ UNCHANGED <<facadeVars, iterVars, lastOp, ret, retAt, netLog, built, attempts,
                   constructed, everCached, lpCalls, firstProjects, threadVars, failures>>

Unset == [type |-> "unset"]

\* Where the transport can raise: the construction of each proxy (the fetch
\* of its service description) and the remote ListProjects call.
FailurePoints == ServiceKeys \cup {"ListProjects"}

\* The threads, and a thread that is not inside an accessor.
Threads == 1..NumThreads
Idle == [pc |-> "idle", key |-> "", local |-> PyNone, result |-> PyNone]

Init ==
    /\ \E url \in BaseUrls : MemoQServer__init__(url)
    /\ now = 0
    /\ retAt = 0
    /\ iterator = NoGenerator
    /\ iterYield = <<>>
    /\ iterCalls = 0
    /\ lpCalls = 0
    /\ firstProjects = Unset
    /\ threads = [t \in Threads |-> Idle]
    /\ lastStored = [k \in ServiceKeys |-> PyNone]
    /\ failures = [p \in FailurePoints |-> 0]

\* A single caller using one facade: its accessors and lookups on the mapping
\* it hands out.
Next ==
    \/ \E key \in ServiceKeys : private_accessor(key)
    \/ api_version
    \/ corpora
    \/ groups
    \/ tbs
    \/ tms
    \/ users
    \/ \E response \in SampleProjectsResponses : all_projects(response)
    \/ \E response \in SampleProjectsResponses : active_projects(response)
    \/ \E response \in SampleProjectsResponses : closed_projects(response)
    \/ light_resources
    \/ \E item \in SampleKeys : LightResources__getitem__(item)
    \/ LightResources__len__
    \/ \E name \in TriedNames : getattr_undefined(name)

Spec == Init /\ [][Next]_vars

\* A single caller reading the project views of one facade while time passes.
NextProjects ==
    \/ \E response \in ListProjectsResponses : all_projects(response)
    \/ \E response \in ListProjectsResponses : active_projects(response)
    \/ \E response \in ListProjectsResponses : closed_projects(response)
    \/ Tick

SpecProjects == Init /\ [][NextProjects]_vars

\* A single caller using the mapping of one facade: lookups, len and iteration.
NextLR ==
    \/ light_resources
    \/ \E item \in AllKeys : LightResources__getitem__(item)
    \/ LightResources__len__
    \/ LightResources__iter__
    \/ generator__next__

SpecLR == Init /\ [][NextLR]_vars

----------------------------------------------------------------------------
(* Threads sharing one facade.  A private accessor is not atomic: between   *)
(* the failed lookup, the construction of the proxy (a WSDL fetch), the     *)
(* store into the dict and the lookup that hands the entry back, another    *)
(* thread may run.  Each dict operation itself is atomic.                   *)

\* The private accessors the threads read, and the ones some single caller
\* may have read before the threads start.
RacedKeys == {"_server_project_service", "_tm_service"}
PreCachedKeys == {"_security_service", "_tm_service"}

\* A variant of the store that keeps an entry that is already there.
store_first_wins(endpoints, key, proxy) ==
    IF key \in DOMAIN endpoints THEN endpoints
    ELSE [k \in DOMAIN endpoints \cup {key} |-> IF k = key THEN proxy ELSE endpoints[k]]

\* self._api_endpoints[key] = proxy
store(endpoints, key, proxy) ==
    [k \in DOMAIN endpoints \cup {key} |-> IF k = key THEN proxy ELSE endpoints[k]]

ThreadStepLeaves ==
    UNCHANGED <<base_url, _all_projects, _light_resources, now, iterVars, lastOp, ret,
                retAt, netLog, built, attempts, lpCalls, firstProjects, failures>>

\* A thread starts to read the private accessor of `key`.
thread_enter(t, key) ==
    /\ threads[t].pc = "idle"
    /\ threads' = [threads EXCEPT ![t] = [Idle EXCEPT !.pc = "try", !.key = key]]
    /\ ThreadStepLeaves
    /\ UNCHANGED <<_api_endpoints, constructed, everCached, lastStored>>

\* try: return self._api_endpoints[key]   (KeyError sends it to the handler)
thread_try(t) ==
    /\ threads[t].pc = "try"
    /\ LET key == threads[t].key
       IN  threads' = [threads EXCEPT ![t] =
                          IF key \in DOMAIN _api_endpoints
                          THEN [@ EXCEPT !.pc = "done", !.result = _api_endpoints[key]]
                          ELSE [@ EXCEPT !.pc = "construct"]]
    /\ ThreadStepLeaves
    /\ UNCHANGED <<_api_endpoints, constructed, everCached, lastStored>>

\* except KeyError: the right-hand side, MemoQ...Service(self.base_url)
thread_construct(t) ==
    /\ threads[t].pc = "construct"
    /\ LET key == threads[t].key
       IN  /\ threads' = [threads EXCEPT ![t] =
                             [@ EXCEPT !.pc = "store",
                                       !.local = NewProxy(key, base_url, constructed[key] + 1)]]
           /\ constructed' = Count({key})
    /\ ThreadStepLeaves
    /\ UNCHANGED <<_api_endpoints, everCached, lastStored>>

\* the assignment self._api_endpoints[key] = <the proxy just constructed>
thread_store(t) ==
    /\ threads[t].pc = "store"
    /\ LET key == threads[t].key
       IN  /\ _api_endpoints' = store(_api_endpoints, key, threads[t].local)
           /\ lastStored' = [lastStored EXCEPT ![key] = threads[t].local]
    /\ everCached' = Held(_api_endpoints')
    /\ threads' = [threads EXCEPT ![t] = [@ EXCEPT !.pc = "return"]]
    /\ ThreadStepLeaves
    /\ UNCHANGED constructed

\* return self._api_endpoints[key]
thread_return(t) ==
    /\ threads[t].pc = "return"
    /\ LET key == threads[t].key
       IN  threads' = [threads EXCEPT ![t] =
                          [@ EXCEPT !.pc = "done", !.result = _api_endpoints[key]]]
    /\ ThreadStepLeaves
    /\ UNCHANGED <<_api_endpoints, constructed, everCached, lastStored>>

\* A facade on which one caller has read the private accessors `pre`, handed
\* to the threads.
InitThreads ==
    \E url \in BaseUrls, pre \in SUBSET PreCachedKeys :
        /\ base_url = url
        /\ _all_projects = PyNone
        /\ _light_resources = PyNone
        /\ _api_endpoints = [k \in pre |-> NewProxy(k, url, 1)]
        /\ constructed = [k \in ServiceKeys |-> IF k \in pre THEN 1 ELSE 0]
        /\ everCached = [k \in ServiceKeys |-> IF k \in pre THEN {NewProxy(k, url, 1)} ELSE {}]
        /\ lastStored = [k \in ServiceKeys |-> IF k \in pre THEN NewProxy(k, url, 1) ELSE PyNone]
        /\ threads = [t \in Threads |-> Idle]
        /\ failures = [p \in FailurePoints |-> 0]
        /\ lastOp = Op("start_threads", <<>>)
        /\ ret = Returned(PyNone)
        /\ retAt = 0
        /\ netLog = <<>>
        /\ built = {}
        /\ attempts = <<>>
        /\ now = 0
        /\ iterator = NoGenerator
        /\ iterYield = <<>>
        /\ iterCalls = 0
        /\ lpCalls = 0
        /\ firstProjects = Unset

NextThreads ==
    \E t \in Threads :
        \/ \E key \in RacedKeys : thread_enter(t, key)
        \/ thread_try(t)
        \/ thread_construct(t)
        \/ thread_store(t)
        \/ thread_return(t)

SpecThreads == InitThreads /\ [][NextThreads]_vars

----------------------------------------------------------------------------
(* A transport that can fail.  The facade has no try/except around a proxy  *)
(* construction or a remote call, so an error raised there unwinds the      *)
(* accessor before the assignment that would have filled the cache.         *)

\* The errors of the transport: a service description that cannot be fetched,
\* a fault the server declares.
Errors == {"TransportError", "Fault"}
\* The private accessors read in the runs with a failing transport.
FaultKeys == {"_server_project_service", "_security_service"}

\* A variant that puts a placeholder under the key before it constructs.
cached_endpoint_raising_reserves(key, exc) ==
    [endpoints |-> [k \in DOMAIN _api_endpoints \cup {key} |->
                        IF k = key THEN PyNone ELSE _api_endpoints[k]],
     raised |-> exc, tried |-> <<Attempt(key, FALSE)>>]

\* The body of a private accessor whose key is not cached, when the
\* constructor raises `exc`: the lookup raises KeyError, the handler evaluates
\* the constructor call once, and the assignment never runs.
cached_endpoint_raising(key, exc) ==
    [endpoints |-> _api_endpoints, raised |-> exc, tried |-> <<Attempt(key, FALSE)>>]

\* What a step that ended in a transport error did, and the count of errors
\* raised at `point`.
ObserveFailure(op, exc, calls, keys, tried, point) ==
    /\ lastOp' = Op(op, <<>>)
    /\ ret' = Raised(exc)
    /\ retAt' = now
    /\ netLog' = calls
    /\ built' = keys
    /\ attempts' = tried
    /\ \A k \in keys : constructed[k] < MaxCalls
    /\ constructed' = Count(keys)
    /\ everCached' = Held(_api_endpoints')
    /\ lastStored' = [k \in ServiceKeys |->
                          IF k \in keys THEN _api_endpoints'[k] ELSE lastStored[k]]
    /\ failures[point] < MaxFailures
    /\ failures' = [failures EXCEPT ![point] = @ + 1]
    /\ UNCHANGED threads

\* Reading a private accessor whose proxy cannot be constructed.
private_accessor_raises(key, exc) ==
    /\ key \notin DOMAIN _api_endpoints
    /\ LET f == cached_endpoint_raising(key, exc)
       IN  /\ _api_endpoints' = f.endpoints
           /\ ObserveFailure(key, f.raised, <<>>, {}, f.tried, key)
    /\ UNCHANGED <<base_url, _all_projects, _light_resources, now, lpCalls,
                   firstProjects, iterVars>>

\* all_projects when the project-management proxy cannot be constructed: the
\* error leaves the right-hand side before ListProjects is looked up.
all_projects_construction_raises(exc) ==
    /\ _all_projects = PyNone
    /\ "_server_project_service" \notin DOMAIN _api_endpoints
    /\ LET f == cached_endpoint_raising("_server_project_service", exc)
       IN  /\ _api_endpoints' = f.endpoints
           /\ ObserveFailure("all_projects", f.raised, <<>>, {}, f.tried,
                             "_server_project_service")
    /\ UNCHANGED <<base_url, _all_projects, _light_resources, now, lpCalls,
                   firstProjects, iterVars>>

\* all_projects when the remote ListProjects call raises: the proxy has been
\* fetched (and cached, if it was not), the assignment to _all_projects
\* never runs.
all_projects_call_raises(exc) ==
    /\ _all_projects = PyNone
    /\ LET svc == _server_project_service
       IN  /\ _api_endpoints' = svc.endpoints
           /\ ObserveFailure("all_projects", exc,
                             <<RemoteCall(svc.proxy, "ListProjects", AllProjectsFilter,
                                          Raised(exc))>>,
                             svc.built, Succeeded(svc.built), "ListProjects")
    /\ UNCHANGED <<base_url, _all_projects, _light_resources, now, lpCalls,
                   firstProjects, iterVars>>

\* A single caller reading private accessors and all_projects of one facade
\* over a transport that may raise.
NextFault ==
    \/ \E key \in FaultKeys : private_accessor(key)
    \/ \E key \in FaultKeys, exc \in Errors : private_accessor_raises(key, exc)
    \/ \E response \in SampleProjectsResponses : all_projects(response)
    \/ \E exc \in Errors : all_projects_construction_raises(exc)
    \/ \E exc \in Errors : all_projects_call_raises(exc)

SpecFault == Init /\ [][NextFault]_vars

----------------------------------------------------------------------------
(* Properties *)

Items(v) == Range(v.items)

\* C1: on one facade, however often all_projects is read and whatever the
\* remote ListProjects call answered, exactly one ListProjects call has been
\* issued and the access hands back what that first call returned.
C1_AllProjectsFetchedOnce ==
    lastOp.name = "all_projects" =>
        /\ lpCalls = 1
        /\ ret = Returned(firstProjects)

\* The closing time the views compare against the clock.
ClosingTime(proj) == Instant(replace_tzinfo(proj.fields.TimeClosed, utc))

\* Two successive reads of the two views, one of each, over the same snapshot.
ViewThenView(first, second) ==
    /\ lastOp.name = first
    /\ lastOp'.name = second
    /\ ret.kind = "value"
    /\ ret'.kind = "value"
    /\ _all_projects' = _all_projects

\* C2: for a fixed snapshot and one instant, every project of the snapshot is
\* handed back by exactly one of active_projects and closed_projects read at
\* that instant: never by both, never by neither.
C2_PartitionAtOneInstant ==
    [][(/\ \/ ViewThenView("active_projects", "closed_projects")
           \/ ViewThenView("closed_projects", "active_projects")
        /\ retAt' = retAt)
       => \A proj \in Items(_all_projects) :
              (proj \in Items(ret.value)) # (proj \in Items(ret'.value))]_vars

\* C3: for a fixed snapshot and instants t1 < t2, a project active_projects
\* handed back at t1 whose closing time c has t1 < c <= t2 is handed back by
\* closed_projects at t2, and that read issues no remote call.
C3_ActiveThenClosed ==
    [][(/\ ViewThenView("active_projects", "closed_projects")
        /\ retAt < retAt')
       => /\ netLog' = <<>>
          /\ \A proj \in Items(ret.value) :
                 (retAt < ClosingTime(proj) /\ ClosingTime(proj) <= retAt')
                     => proj \in Items(ret'.value)]_vars

\* C4: the endpoint cache holds at most one proxy per service key, an entry is
\* never removed or replaced (the cache has held no other proxy for the key
\* than the one it holds), a private accessor hands back the cached proxy,
\* one proxy has been constructed per cached key, and the proxies of
\* different keys are different objects.
C4_EndpointCache ==
    /\ DOMAIN _api_endpoints \subseteq ServiceKeys
    /\ \A k \in ServiceKeys :
           /\ constructed[k] = (IF k \in DOMAIN _api_endpoints THEN 1 ELSE 0)
           /\ everCached[k] = (IF k \in DOMAIN _api_endpoints THEN {_api_endpoints[k]} ELSE {})
    /\ \A k, j \in DOMAIN _api_endpoints : k # j => _api_endpoints[k] # _api_endpoints[j]
    /\ lastOp.name \in ServiceKeys =>
           /\ lastOp.name \in DOMAIN _api_endpoints
           /\ ret = Returned(_api_endpoints[lastOp.name])

\* A private accessor read again, with another key's proxy cached as well.
C4_Witness ==
    /\ lastOp.name = "_tm_service"
    /\ built = {}
    /\ constructed["_tm_service"] = 1
    /\ "_security_service" \in DOMAIN _api_endpoints

\* C5: whatever the base URL, a facade just constructed has an empty endpoint
\* cache, no cached project list and no mapping, and its construction issued
\* no remote call and constructed no proxy.
C5_ConstructionIsLazy ==
    lastOp.name = "__init__" =>
        /\ base_url = lastOp.args[1]
        /\ _api_endpoints = EmptyDict
        /\ _all_projects = PyNone
        /\ _light_resources = PyNone
        /\ netLog = <<>>
        /\ built = {}
        /\ \A k \in ServiceKeys : constructed[k] = 0
        /\ lpCalls = 0

C5_Witness ==
    /\ lastOp = Op("__init__", <<"http://memoq.example:8080">>)
    /\ base_url = "http://memoq.example:8080"

\* C6: a lookup on the mapping issues a remote call iff its key is one of the
\* 18 resource types: then exactly one ListResources call carrying the key,
\* whose response is handed back; otherwise KeyError, no call, and a message
\* that lists every resource type.
C6_LookupValidatesKey ==
    /\ Cardinality(Range(_resource_types)) = 18
    /\ lastOp.name = "__getitem__" =>
           LET item == lastOp.args[1]
           IN  IF item \in Range(_resource_types)
               THEN /\ Len(netLog) = 1
                    /\ netLog[1].op = "ListResources"
                    /\ netLog[1].args = <<item>>
                    /\ netLog[1].service = _light_resources._light_resource_service
                    /\ ret = Returned(netLog[1].response)
               ELSE /\ netLog = <<>>
                    /\ ret.kind = "exception"
                    /\ ret.exc = "KeyError"
                    /\ \A k \in Range(_resource_types) :
                           \E i \in 1..Len(ret.message) : ret.message[i] = k

C6_Witness ==
    /\ lastOp = Op("__getitem__", <<"Bogus">>)
    /\ ret.kind = "exception"
    /\ netLog = <<>>

\* The accessors that hand back records of the remote server.
ReadAccessors ==
    {"all_projects", "active_projects", "closed_projects", "users", "groups",
     "corpora", "tbs", "tms", "__getitem__"}

\* C7 as stated: what a read accessor hands back is the response converted to
\* plain mappings, i.e. response_object_to_dict leaves it as it is.
C7_RecordsArePlainMappings ==
    (lastOp.name \in ReadAccessors /\ ret.kind = "value") =>
        response_object_to_dict(ret.value) = ret.value

\* C7, amended: every record a read accessor hands back is the transport
\* client's own record, and an accessor that called the server hands back the
\* response as it came (the views hand back the records of the cached list).
C7_RecordsAreTransportRecords ==
    (lastOp.name \in ReadAccessors /\ ret.kind = "value") =>
        /\ ret.value.type = "list" => \A o \in Items(ret.value) : o.type = "zeep"
        /\ (Len(netLog) = 1 /\ lastOp.name \notin {"active_projects", "closed_projects"})
               => ret.value = netLog[1].response
        /\ (lastOp.name \in {"active_projects", "closed_projects"})
               => Items(ret.value) \subseteq Items(_all_projects)

C7_Witness ==
    /\ lastOp.name = "users"
    /\ ret.kind = "value"
    /\ ret.value.type = "list"
    /\ Len(ret.value.items) = 1
    /\ ret.value.items[1].type = "zeep"

\* C8 as stated: `projects` is an accessor, and every read of it issues one
\* remote call to the project-management endpoint.
C8_ProjectsIsUncached ==
    lastOp.name = "projects" =>
        /\ ret.kind = "value"
        /\ Len(netLog) = 1
        /\ netLog[1].service.cls = "MemoQServerProjectService"

\* C8, amended: the facade defines no `projects`; reading it raises
\* AttributeError, issues no remote call and constructs no proxy.
C8_ProjectsIsUndefined ==
    /\ "projects" \notin MemoQServerAttributes
    /\ lastOp.name = "projects" =>
           /\ ret = Raised("AttributeError")
           /\ netLog = <<>>
           /\ built = {}

C8_Witness ==
    /\ lastOp.name = "projects"
    /\ ret.kind = "exception"
    /\ "_server_project_service" \in DOMAIN _api_endpoints

\* The operation and the private accessor behind each uncached accessor.
UncachedAccessors ==
    [api_version |-> [key |-> "_server_project_service", op |-> "GetApiVersion"],
     users |-> [key |-> "_security_service", op |-> "ListUsers"],
     groups |-> [key |-> "_security_service", op |-> "ListGroups"],
     corpora |-> [key |-> "_live_docs_service", op |-> "ListCorpora"],
     tbs |-> [key |-> "_tb_service", op |-> "ListTBs"],
     tms |-> [key |-> "_tm_service", op |-> "ListTMs"]]

\* C9: every read of api_version, users, groups, corpora, tbs or tms issues
\* exactly one call of its operation through the cached proxy of its service
\* and hands back that call's response, while the proxy has been constructed
\* once however many reads there were (and by this read only if it is in
\* `built`).
C9_UncachedAccessors ==
    lastOp.name \in DOMAIN UncachedAccessors =>
        LET a == UncachedAccessors[lastOp.name]
        IN  /\ Len(netLog) = 1
            /\ netLog[1].op = a.op
            /\ netLog[1].service = _api_endpoints[a.key]
            /\ ret = Returned(netLog[1].response)
            /\ built \subseteq {a.key}
            /\ constructed[a.key] = 1

\* A read served through a proxy that was cached before it.
C9_Witness ==
    /\ lastOp.name = "groups"
    /\ built = {}
    /\ Len(netLog) = 1
    /\ netLog[1].op = "ListGroups"

\* C10: the generator yields the resource types in declared order, each
\* paired with the response of the one ListResources call issued for it, so a
\* generator run to its end has yielded all 18 keys and issued 18 calls; len()
\* hands back 18 and issues no call.
C10_IterationAndLen ==
    /\ iterYield = SubSeq(_resource_types, 1, iterator.pos)
    /\ iterCalls = iterator.pos
    /\ (lastOp.name = "__next__" /\ ret.kind = "value") =>
           LET item == _resource_types[iterator.pos]
           IN  /\ Len(netLog) = 1
               /\ netLog[1].op = "ListResources"
               /\ netLog[1].args = <<item>>
               /\ ret.value = [type |-> "tuple",
                               items |-> <<PyStr(item), netLog[1].response>>]
    /\ iterator.state = "exhausted" =>
           /\ iterYield = _resource_types
           /\ Len(iterYield) = 18
           /\ iterCalls = 18
    /\ lastOp.name = "__len__" =>
           /\ ret = Returned(PyInt(18))
           /\ netLog = <<>>

C10_Witness ==
    /\ iterator.state = "exhausted"
    /\ lastOp.name = "__next__"
    /\ ret = Raised("StopIteration")
    /\ Len(iterYield) = 18

\* The threads that are reading the private accessor of a key.
Readers(key) == {t \in Threads : threads[t].key = key}

\* C11: whatever the interleaving of threads reading private accessors, the
\* cache holds for each key exactly the proxy the last store wrote for it
\* (and no entry for a key nothing was stored for); an entry no thread reads
\* is the one that was there from the start; and once all threads have
\* finished, every key they read is cached and each thread was handed a proxy
\* the cache held for its key.
C11_LastWriteWins ==
    /\ \A k \in ServiceKeys :
           /\ IF lastStored[k] = PyNone
              THEN k \notin DOMAIN _api_endpoints
              ELSE k \in DOMAIN _api_endpoints /\ _api_endpoints[k] = lastStored[k]
           /\ (k \in DOMAIN _api_endpoints /\ Readers(k) = {}) =>
                  _api_endpoints[k] = NewProxy(k, base_url, 1) /\ constructed[k] = 1
           /\ Cardinality(everCached[k]) <= constructed[k]
    /\ (\A t \in Threads : threads[t].pc = "done") =>
           \A t \in Threads :
               /\ threads[t].key \in DOMAIN _api_endpoints
               /\ threads[t].result \in everCached[threads[t].key]

\* Two threads have raced on one key that was not cached: both constructed a
\* proxy, both have finished, and another key's entry is in the cache.
C11_Witness ==
    \E t, u \in Threads :
        /\ t # u
        /\ \A v \in Threads : threads[v].pc = "done"
        /\ threads[t].key = "_server_project_service"
        /\ threads[u].key = "_server_project_service"
        /\ constructed["_server_project_service"] = 2
        /\ threads[t].result # threads[u].result
        /\ "_security_service" \in DOMAIN _api_endpoints

\* The last access ended in an error raised while constructing the proxy of k.
FailedConstruction(k) == ret.kind = "exception" /\ attempts = <<Attempt(k, FALSE)>>
\* The last access ended in an error raised by a remote call.
FailedCall == ret.kind = "exception" /\ netLog # <<>>

\* What C12 says of one step.
C12_Step ==
    /\ ret'.kind = "exception" =>
           /\ _all_projects' = _all_projects
           /\ _light_resources' = _light_resources
           /\ Len(attempts') <= 1
           /\ Len(netLog') <= 1
           /\ \A k \in ServiceKeys :
                  attempts' = <<Attempt(k, FALSE)>> =>
                      /\ _api_endpoints' = _api_endpoints
                      /\ k \notin DOMAIN _api_endpoints'
                      /\ netLog' = <<>>
                      /\ ret'.exc \in Errors
           /\ netLog' # <<>> =>
                  /\ netLog'[1].op = "ListProjects"
                  /\ netLog'[1].response = ret'
                  /\ _all_projects' = PyNone
                  /\ \A k \in DOMAIN _api_endpoints :
                         k \in DOMAIN _api_endpoints' /\ _api_endpoints'[k] = _api_endpoints[k]
    /\ \A k \in ServiceKeys :
           (FailedConstruction(k) /\ lastOp'.name = lastOp.name) =>
               /\ Len(attempts') = 1
               /\ attempts'[1].key = k
    /\ (FailedCall /\ lastOp'.name = lastOp.name) =>
           /\ Len(netLog') = 1
           /\ netLog'[1].op = "ListProjects"
           /\ netLog'[1].args = AllProjectsFilter

\* C12: a step that ends in a transport error leaves _all_projects (still
\* None) and _light_resources as they were, made at most one construction
\* attempt and at most one remote call; when the construction of a proxy
\* raised, _api_endpoints is unchanged and has no entry for that key; when
\* ListProjects raised, the error is the one the caller gets and no entry of
\* _api_endpoints was dropped or replaced; and the access to the same property
\* that follows a failure attempts the construction, or issues the call, again.
C12_FailureLeavesCaches == [][C12_Step]_vars

\* The construction of the project-management proxy has failed, ListProjects
\* has failed, and an access to all_projects after that issued the call again
\* and cached its list.
C12_Witness ==
    /\ failures["_server_project_service"] >= 1
    /\ failures["ListProjects"] >= 1
    /\ lastOp.name = "all_projects"
    /\ ret.kind = "value"
    /\ Len(netLog) = 1
    /\ _all_projects.type = "list"
    /\ constructed["_server_project_service"] = 1

====
